---- MODULE Spec2Model ----
(***************************************************************************)
(* Model of migrate_vercel_to_cloudflare.py: the paginated lister          *)
(* (get_vercel_projects), the detail aggregator                            *)
(* (get_vercel_project_details), the mapping and creation step             *)
(* (create_cloudflare_pages_project) and the orchestrator (main).          *)
(*                                                                         *)
(* JSON values are modelled by records whose fields are always present;    *)
(* a key that is missing or null reads as Absent, which is what dict.get   *)
(* returns for it.  Python truthiness is the operator Truthy.              *)
(***************************************************************************)
EXTENDS Naturals, Sequences, FiniteSets

VARIABLES
    mode,            \* "single" (args.project_id given) or "bulk"
    pc,              \* position of main and of the function it is executing
    url,             \* get_vercel_projects: the local url (<<>> is None)
    projects,        \* get_vercel_projects: the local list projects
    responseBound,   \* get_vercel_projects: whether the local response is bound
    pageNo,          \* number of listing requests issued so far
    listFailed,      \* history: some listing request failed
    pages,           \* history: the answers of the listing requests that
                     \*          succeeded, in order
    vercel_projects, \* main: the value returned by get_vercel_projects
    idx,             \* main: position of the for loop in vercel_projects
    details,         \* the dictionary built by get_vercel_project_details
    fetched,         \* history: what the three detail requests answered
    payload,         \* create_cloudflare_pages_project: <<>> or <<payload>>
    outcomes,        \* history: how each processed identifier ended
    reqs,            \* history: the requests issued, in order
    exc,             \* the uncaught exception that ended the run, or "none"
    runMsg           \* the last run-level message main printed

vars == <<mode, pc, url, projects, responseBound, pageNo, listFailed, pages,
          vercel_projects, idx, details, fetched, payload, outcomes, reqs,
          exc, runMsg>>

----------------------------------------------------------------------------
(* Bounds of the model *)

MaxPages == 2
MaxPageLen == 2
MaxProjects == 2
MaxEnvLen == 2

----------------------------------------------------------------------------
(* JSON values *)

\* dict.get(key) of a missing or null key
Absent == "<absent>"

\* Python truthiness of a string-or-None value
Truthy(x) == x \notin {Absent, ""}

\* info['link']: the key may be missing, null, or a dictionary with the keys
\* type, org and repo.  A dictionary may hold further keys, which the code
\* does not read; owner is one, missing unless WithOwner adds it.
LinkShapes == {"absent", "null", "dict"}

\* The values of link['type']: missing, the supported provider, another
\* provider, and a value that is no provider name
LinkTypes == {Absent, "github", "other", "GitHub?"}

Link(shape, type, org, repo) ==
    [shape |-> shape, type |-> type, org |-> org, repo |-> repo,
     owner |-> Absent]

WithOwner(link, owner) == [link EXCEPT !.owner = owner]

NoLink == Link("absent", Absent, Absent, Absent)

Links ==
    {NoLink, Link("null", Absent, Absent, Absent)}
    \cup {Link("dict", t, "acme", "web") : t \in LinkTypes}

Info(name, link, branch, cmd, out, root) ==
    [name |-> name, link |-> link, productionBranch |-> branch,
     buildCommand |-> cmd, outputDirectory |-> out, rootDirectory |-> root]

NoInfo == Info(Absent, NoLink, Absent, Absent, Absent, Absent)

Names == {Absent, "", "site"}

\* The project infos the source platform answers with in a run
RunInfos ==
    {Info(n, l, Absent, "npm run build", "dist", Absent) :
        n \in Names, l \in Links}

\* An entry of the envs array
EnvVar(key, value, target, type) ==
    [key |-> key, value |-> value, target |-> target, type |-> type]

Scopes == {"production", "preview", "development"}

\* The envs arrays the source platform answers with in a run
RunEnvs ==
    {<< >>,
     <<EnvVar("API_URL", "https://api", {"production", "preview"}, "plain")>>,
     <<EnvVar("TOKEN", "", {"production"}, "secret"),
       EnvVar("DEBUG", "1", {"development"}, "plain")>>}

RunDomains == {<< >>, <<"example.com">>}

----------------------------------------------------------------------------
(* create_cloudflare_pages_project: the mapping to the target payload *)

EmptyMaps == [production |-> << >>, preview |-> << >>]

\* dict[key] = value
Put(m, k, v) == [x \in (DOMAIN m) \cup {k} |-> IF x = k THEN v ELSE m[x]]

\* Mutant of EnvStep: elif 'preview' in targets
EnvStep_NoFanOut(maps, var) ==
    IF Truthy(var.key) /\ Truthy(var.value)
    THEN [production |->
              IF "production" \in var.target
              THEN Put(maps.production, var.key, var.value)
              ELSE maps.production,
          preview |->
              IF "preview" \in var.target /\ "production" \notin var.target
              THEN Put(maps.preview, var.key, var.value)
              ELSE maps.preview]
    ELSE maps

\* Mutant of EnvStep: if var_name, without the test of var_value
EnvStep_KeepEmpty(maps, var) ==
    IF Truthy(var.key)
    THEN [production |->
              IF "production" \in var.target
              THEN Put(maps.production, var.key, var.value)
              ELSE maps.production,
          preview |->
              IF "preview" \in var.target
              THEN Put(maps.preview, var.key, var.value)
              ELSE maps.preview]
    ELSE maps

\* Mutant of EnvStep: dict.setdefault, the first value of a key stays
EnvStep_FirstWins(maps, var) ==
    IF Truthy(var.key) /\ Truthy(var.value)
    THEN [production |->
              IF "production" \in var.target
                  /\ var.key \notin DOMAIN maps.production
              THEN Put(maps.production, var.key, var.value)
              ELSE maps.production,
          preview |->
              IF "preview" \in var.target
                  /\ var.key \notin DOMAIN maps.preview
              THEN Put(maps.preview, var.key, var.value)
              ELSE maps.preview]
    ELSE maps

\* One iteration of the loop over vercel_env_vars
EnvStep(maps, var) ==
    IF Truthy(var.key) /\ Truthy(var.value)
    THEN [production |->
              IF "production" \in var.target
              THEN Put(maps.production, var.key, var.value)
              ELSE maps.production,
          preview |->
              IF "preview" \in var.target
              THEN Put(maps.preview, var.key, var.value)
              ELSE maps.preview]
    ELSE maps

RECURSIVE EnvFold(_, _)
EnvFold(maps, envs) ==
    IF envs = << >> THEN maps
    ELSE EnvFold(EnvStep(maps, Head(envs)), Tail(envs))

\* environment_variables and preview_environment_variables after the loop
EnvMaps(envs) == EnvFold(EmptyMaps, envs)

\* x or default
OrDefault(x, d) == IF Truthy(x) THEN x ELSE d

BuildConfig(info) ==
    [build_command |-> info.buildCommand,
     output_dir |-> info.outputDirectory,
     root_dir |-> OrDefault(info.rootDirectory, "/")]

\* Mutant of BuildPayload: the branch of the source configuration is
\* passed on as it is, without the default
BuildPayload_RawBranch(info, maps) ==
    [name |-> info.name,
     production_branch |-> OrDefault(info.productionBranch, "main"),
     build_config |-> BuildConfig(info),
     source |->
         [type |-> "github",
          config |->
              [owner |-> info.link.org,
               repo_name |-> info.link.repo,
               production_branch |-> info.productionBranch]],
     deployment_configs |->
         [preview |-> [environment_variables |-> maps.preview],
          production |-> [environment_variables |-> maps.production]]]

\* Mutant of BuildPayload: repo_info.get('owner')
BuildPayload_OwnerKey(info, maps) ==
    [name |-> info.name,
     production_branch |-> OrDefault(info.productionBranch, "main"),
     build_config |-> BuildConfig(info),
     source |->
         [type |-> "github",
          config |->
              [owner |-> info.link.owner,
               repo_name |-> info.link.repo,
               production_branch |-> OrDefault(info.productionBranch, "main")]],
     deployment_configs |->
         [preview |-> [environment_variables |-> maps.preview],
          production |-> [environment_variables |-> maps.production]]]

BuildPayload(info, maps) ==
    [name |-> info.name,
     production_branch |-> OrDefault(info.productionBranch, "main"),
     build_config |-> BuildConfig(info),
     source |->
         [type |-> "github",
          config |->
              [owner |-> info.link.org,
               repo_name |-> info.link.repo,
               production_branch |-> OrDefault(info.productionBranch, "main")]],
     deployment_configs |->
         [preview |-> [environment_variables |-> maps.preview],
          production |-> [environment_variables |-> maps.production]]]

\* not repo_info: a missing or null link is falsy
LinkFalsy(link) == link.shape \in {"absent", "null"}

\* Mutant of Transform: the link is tested before the name
Transform_LinkFirst(det) ==
    IF LinkFalsy(det.info.link) \/ det.info.link.type # "github"
    THEN [tag |-> "not_github", payload |-> << >>]
    ELSE IF ~Truthy(det.info.name)
    THEN [tag |-> "missing_name", payload |-> << >>]
    ELSE [tag |-> "payload",
          payload |-> <<BuildPayload(det.info, EnvMaps(det.env_vars))>>]

\* The function up to the API call: what it decides for a details dictionary.
\*   missing_name   : "Skipping project: Missing name", return None
\*   not_github     : "Skipping project ...: Not linked to a GitHub repository"
\*   payload        : the payload is built and the API call follows
Transform(det) ==
    IF ~Truthy(det.info.name)
    THEN [tag |-> "missing_name", payload |-> << >>]
    ELSE IF LinkFalsy(det.info.link)
    THEN [tag |-> "not_github", payload |-> << >>]
    ELSE IF det.info.link.type # "github"
    THEN [tag |-> "not_github", payload |-> << >>]
    ELSE [tag |-> "payload",
          payload |-> <<BuildPayload(det.info, EnvMaps(det.env_vars))>>]

----------------------------------------------------------------------------
(* main: the eligibility test of bulk mode *)

\* project_details.get('info', {}).get('link', {}).get('type') == 'github'
\*   a missing link reads as {} and has no type; a null link is None, which
\*   has no method get
BulkLinkCheck(info) ==
    IF info.link.shape = "null" THEN "AttributeError"
    ELSE IF info.link.type = "github" THEN "github"
    ELSE "other"

----------------------------------------------------------------------------
(* State of a run *)

NoUrl == << >>
BaseUrl == <<"/v9/projects">>
UntilUrl(cursor) == <<"/v9/projects", cursor>>

NoDetails ==
    [none |-> TRUE, has |-> {}, info |-> NoInfo, env_vars |-> << >>,
     domains |-> << >>]

NoFetched ==
    [info |-> "none", env |-> "none", domains |-> "none",
     infoBody |-> NoInfo, envBody |-> << >>, domainsBody |-> << >>]

FailureKinds == {"http", "transport"}

Request(op, arg) == [op |-> op, arg |-> arg]

Init ==
    /\ mode \in {"single", "bulk"}
    /\ pc = IF mode = "single" THEN "info" ELSE "list"
    /\ url = BaseUrl
    /\ projects = << >>
    /\ responseBound = FALSE
    /\ pageNo = 0
    /\ listFailed = FALSE
    /\ pages = << >>
    /\ vercel_projects = [none |-> TRUE, list |-> << >>]
    /\ idx = IF mode = "single" THEN 1 ELSE 0
    /\ details = NoDetails
    /\ fetched = NoFetched
    /\ payload = << >>
    /\ outcomes = << >>
    /\ reqs = << >>
    /\ exc = "none"
    /\ runMsg = "Fetching Vercel projects..."

\* The creation requests issued so far for an identifier
CreateRequests(id) == {i \in DOMAIN reqs : reqs[i] = Request("create", id)}

\* An exception no handler catches ends the process
Crash(e) ==
    /\ pc' = "crashed"
    /\ exc' = e

\* The current identifier has been dealt with: the for loop goes on, and in
\* single-project mode main reaches its last line.
Done(o) ==
    /\ outcomes' = Append(outcomes, o)
    /\ pc' = IF mode = "bulk" THEN "loop" ELSE "finished"
    /\ runMsg' = IF mode = "bulk" THEN runMsg ELSE "Migration process finished."
    /\ exc' = exc

----------------------------------------------------------------------------
(* get_vercel_projects *)

\* The pages a listing request can answer with when n0 summaries have been
\* collected: each summary has a fresh id, or no id (0).
Pages(n0) ==
    UNION {
        {[k \in 1..n |-> [id |-> IF has[k] THEN n0 + k ELSE 0]] :
            has \in [1..n -> BOOLEAN]} :
        n \in {m \in 0..MaxPageLen : n0 + m <= MaxProjects}}

\* The cursors a page can carry: 0 is no cursor
Cursors(p) == IF p < MaxPages THEN {0, p} ELSE {0}

\* Mutant of ListPageOk: a maximum page count of one, the loop ends after
\* the first page whatever its cursor
ListPageOk_OnePage ==
    /\ pc = "list"
    /\ url # NoUrl
    /\ \E page \in Pages(Len(projects)), next \in Cursors(pageNo + 1) :
        /\ projects' = projects \o page
        /\ url' = NoUrl
        /\ pages' = Append(pages, [page |-> page, next |-> next])
    /\ responseBound' = TRUE
    /\ pageNo' = pageNo + 1
    /\ reqs' = Append(reqs, Request("list", url))
    /\ UNCHANGED <<mode, pc, listFailed, vercel_projects, idx, details,
                   fetched, payload, outcomes, exc, runMsg>>

\* Mutant of ListPageOk: projects = data.get('projects', []), the page
\* replaces what was collected
ListPageOk_Replace ==
    /\ pc = "list"
    /\ url # NoUrl
    /\ \E page \in Pages(Len(projects)), next \in Cursors(pageNo + 1) :
        /\ projects' = page
        /\ url' = IF next # 0 THEN UntilUrl(next) ELSE NoUrl
        /\ pages' = Append(pages, [page |-> page, next |-> next])
    /\ responseBound' = TRUE
    /\ pageNo' = pageNo + 1
    /\ reqs' = Append(reqs, Request("list", url))
    /\ UNCHANGED <<mode, pc, listFailed, vercel_projects, idx, details,
                   fetched, payload, outcomes, exc, runMsg>>

\* One iteration of the while loop whose request succeeds
ListPageOk ==
    /\ pc = "list"
    /\ url # NoUrl
    /\ \E page \in Pages(Len(projects)), next \in Cursors(pageNo + 1) :
        /\ projects' = projects \o page
        /\ url' = IF next # 0 THEN UntilUrl(next) ELSE NoUrl
        /\ pages' = Append(pages, [page |-> page, next |-> next])
    /\ responseBound' = TRUE
    /\ pageNo' = pageNo + 1
    /\ reqs' = Append(reqs, Request("list", url))
    /\ UNCHANGED <<mode, pc, listFailed, vercel_projects, idx, details,
                   fetched, payload, outcomes, exc, runMsg>>

\* One iteration of the while loop whose request fails: requests.get raises
\* (transport) or raise_for_status raises (http).  The handler reads the
\* local response, which is unbound when requests.get raised in the first
\* iteration.
ListPageFail ==
    /\ pc = "list"
    /\ url # NoUrl
    /\ pageNo' = pageNo + 1
    /\ reqs' = Append(reqs, Request("list", url))
    /\ listFailed' = TRUE
    /\ \E kind \in FailureKinds :
        /\ responseBound' = (responseBound \/ kind = "http")
        /\ IF responseBound'
           THEN /\ vercel_projects' = [none |-> TRUE, list |-> << >>]
                /\ pc' = "after_list"
                /\ exc' = exc
           ELSE /\ Crash("UnboundLocalError")
                /\ vercel_projects' = vercel_projects
    /\ UNCHANGED pages
    /\ UNCHANGED <<mode, url, projects, idx, details, fetched, payload,
                   outcomes, runMsg>>

\* The while loop ends: return projects
ListReturn ==
    /\ pc = "list"
    /\ url = NoUrl
    /\ vercel_projects' = [none |-> FALSE, list |-> projects]
    /\ pc' = "after_list"
    /\ UNCHANGED pages
    /\ UNCHANGED <<mode, url, projects, responseBound, pageNo, listFailed,
                   idx, details, fetched, payload, outcomes, reqs, exc,
                   runMsg>>

----------------------------------------------------------------------------
(* main, bulk mode *)

\* not vercel_projects: None and the empty list are both falsy
ListFalsy(vp) == vp.none \/ vp.list = << >>

\* What main prints once the listing has returned
AfterListMsg(vp) ==
    IF ListFalsy(vp)
    THEN "Failed to fetch Vercel projects or no projects found."
    ELSE "Found projects. Processing..."

AfterList ==
    /\ pc = "after_list"
    /\ runMsg' = AfterListMsg(vercel_projects)
    /\ pc' = IF ListFalsy(vercel_projects) THEN "returned" ELSE "loop"
    /\ UNCHANGED pages
    /\ UNCHANGED <<mode, url, projects, responseBound, pageNo, listFailed,
                   vercel_projects, idx, details, fetched, payload, outcomes,
                   reqs, exc>>

\* The for loop takes the next summary, or ends
LoopNext ==
    /\ pc = "loop"
    /\ IF idx = Len(vercel_projects.list)
       THEN /\ pc' = "finished"
            /\ runMsg' = "Migration process finished."
            /\ UNCHANGED <<idx, outcomes>>
       ELSE /\ idx' = idx + 1
            /\ runMsg' = runMsg
            /\ IF vercel_projects.list[idx + 1].id = 0
               THEN /\ outcomes' = Append(outcomes, "skipped_noid")
                    /\ pc' = "loop"
               ELSE /\ outcomes' = outcomes
                    /\ pc' = "info"
    /\ details' = NoDetails
    /\ fetched' = NoFetched
    /\ payload' = << >>
    /\ UNCHANGED pages
    /\ UNCHANGED <<mode, url, projects, responseBound, pageNo, listFailed,
                   vercel_projects, reqs, exc>>

----------------------------------------------------------------------------
(* main: what each mode decides for the value get_vercel_project_details   *)
(* returned, up to the API call                                            *)

\* create_cloudflare_pages_project up to the API call
CreateDecision(det) ==
    IF Transform(det).tag = "missing_name" THEN "skipped_name"
    ELSE IF Transform(det).tag = "not_github" THEN "skipped_ineligible"
    ELSE "request"

\* Single-project mode: if project_details: create(...) else: "Could not
\* fetch details"
SingleDecision(det) ==
    IF det.none THEN "skipped_error" ELSE CreateDecision(det)

\* Bulk mode: the link type is tested before create(...) is called
BulkDecision(det) ==
    IF det.none THEN "skipped_error"
    ELSE IF BulkLinkCheck(det.info) = "AttributeError" THEN "AttributeError"
    ELSE IF BulkLinkCheck(det.info) = "github" THEN CreateDecision(det)
    ELSE "skipped_ineligible"

----------------------------------------------------------------------------
(* get_vercel_project_details *)

\* The identifier being processed: args.project_id, or the id of the summary
CurId == IF mode = "single" THEN 1 ELSE vercel_projects.list[idx].id

\* Mutant of FetchInfo: the domains are requested next, and the environment
\* variables are left out
FetchInfo_SkipEnv ==
    /\ pc = "info"
    /\ reqs' = Append(reqs, Request("info", CurId))
    /\ \/ \E body \in RunInfos :
            /\ fetched' = [fetched EXCEPT !.info = "ok", !.infoBody = body]
            /\ details' = [details EXCEPT !.none = FALSE,
                                          !.has = @ \cup {"info"},
                                          !.info = body]
            /\ pc' = "domains"
       \/ \E kind \in FailureKinds :
            /\ fetched' = [fetched EXCEPT !.info = "fail"]
            /\ details' = NoDetails
            /\ pc' = "check"
    /\ UNCHANGED pages
    /\ UNCHANGED <<mode, url, projects, responseBound, pageNo, listFailed,
                   vercel_projects, idx, payload, outcomes, exc, runMsg>>

\* The request for the project info; a failure returns None
FetchInfo ==
    /\ pc = "info"
    /\ reqs' = Append(reqs, Request("info", CurId))
    /\ \/ \E body \in RunInfos :
            /\ fetched' = [fetched EXCEPT !.info = "ok", !.infoBody = body]
            /\ details' = [details EXCEPT !.none = FALSE,
                                          !.has = @ \cup {"info"},
                                          !.info = body]
            /\ pc' = "env"
       \/ \E kind \in FailureKinds :
            /\ fetched' = [fetched EXCEPT !.info = "fail"]
            /\ details' = NoDetails
            /\ pc' = "check"
    /\ UNCHANGED pages
    /\ UNCHANGED <<mode, url, projects, responseBound, pageNo, listFailed,
                   vercel_projects, idx, payload, outcomes, exc, runMsg>>

\* Mutant of FetchEnv: a failure returns None, as the info request does
FetchEnv_Fatal ==
    /\ pc = "env"
    /\ reqs' = Append(reqs, Request("env", CurId))
    /\ \/ \E body \in RunEnvs :
            /\ fetched' = [fetched EXCEPT !.env = "ok", !.envBody = body]
            /\ details' = [details EXCEPT !.has = @ \cup {"env_vars"},
                                          !.env_vars = body]
            /\ pc' = "domains"
       \/ \E kind \in FailureKinds :
            /\ fetched' = [fetched EXCEPT !.env = "fail"]
            /\ details' = NoDetails
            /\ pc' = "check"
    /\ UNCHANGED pages
    /\ UNCHANGED <<mode, url, projects, responseBound, pageNo, listFailed,
                   vercel_projects, idx, payload, outcomes, exc, runMsg>>

\* The request for the environment variables; a failure leaves []
FetchEnv ==
    /\ pc = "env"
    /\ reqs' = Append(reqs, Request("env", CurId))
    /\ \/ \E body \in RunEnvs :
            /\ fetched' = [fetched EXCEPT !.env = "ok", !.envBody = body]
            /\ details' = [details EXCEPT !.has = @ \cup {"env_vars"},
                                          !.env_vars = body]
       \/ \E kind \in FailureKinds :
            /\ fetched' = [fetched EXCEPT !.env = "fail"]
            /\ details' = [details EXCEPT !.has = @ \cup {"env_vars"},
                                          !.env_vars = << >>]
    /\ pc' = "domains"
    /\ UNCHANGED pages
    /\ UNCHANGED <<mode, url, projects, responseBound, pageNo, listFailed,
                   vercel_projects, idx, payload, outcomes, exc, runMsg>>

\* Mutant of FetchDomains: a failure returns None, as the info request does
FetchDomains_Fatal ==
    /\ pc = "domains"
    /\ reqs' = Append(reqs, Request("domains", CurId))
    /\ \/ \E body \in RunDomains :
            /\ fetched' = [fetched EXCEPT !.domains = "ok",
                                          !.domainsBody = body]
            /\ details' = [details EXCEPT !.has = @ \cup {"domains"},
                                          !.domains = body]
       \/ \E kind \in FailureKinds :
            /\ fetched' = [fetched EXCEPT !.domains = "fail"]
            /\ details' = NoDetails
    /\ pc' = "check"
    /\ UNCHANGED pages
    /\ UNCHANGED <<mode, url, projects, responseBound, pageNo, listFailed,
                   vercel_projects, idx, payload, outcomes, exc, runMsg>>

\* The request for the domains; a failure leaves []; return details
FetchDomains ==
    /\ pc = "domains"
    /\ reqs' = Append(reqs, Request("domains", CurId))
    /\ \/ \E body \in RunDomains :
            /\ fetched' = [fetched EXCEPT !.domains = "ok",
                                          !.domainsBody = body]
            /\ details' = [details EXCEPT !.has = @ \cup {"domains"},
                                          !.domains = body]
       \/ \E kind \in FailureKinds :
            /\ fetched' = [fetched EXCEPT !.domains = "fail"]
            /\ details' = [details EXCEPT !.has = @ \cup {"domains"},
                                          !.domains = << >>]
    /\ pc' = "check"
    /\ UNCHANGED pages
    /\ UNCHANGED <<mode, url, projects, responseBound, pageNo, listFailed,
                   vercel_projects, idx, payload, outcomes, exc, runMsg>>

----------------------------------------------------------------------------
(* main: what follows get_vercel_project_details, in both modes *)

\* if project_details: ... else: "Could not fetch details" / "Failed to
\* fetch details".  Bulk mode tests the link type before it calls
\* create_cloudflare_pages_project; single-project mode calls it directly.
Check ==
    /\ pc = "check"
    /\ IF details.none
       THEN Done("skipped_error")
       ELSE IF mode = "single"
       THEN /\ pc' = "create"
            /\ UNCHANGED <<outcomes, exc, runMsg>>
       ELSE IF BulkLinkCheck(details.info) = "AttributeError"
       THEN /\ Crash("AttributeError")
            /\ UNCHANGED <<outcomes, runMsg>>
       ELSE IF BulkLinkCheck(details.info) = "github"
       THEN /\ pc' = "create"
            /\ UNCHANGED <<outcomes, exc, runMsg>>
       ELSE Done("skipped_ineligible")
    /\ UNCHANGED pages
    /\ UNCHANGED <<mode, url, projects, responseBound, pageNo, listFailed,
                   vercel_projects, idx, details, fetched, payload, reqs>>

----------------------------------------------------------------------------
(* create_cloudflare_pages_project *)

\* From the entry of the function to the API call
CreateTransform ==
    /\ pc = "create"
    /\ LET t == Transform(details) IN
        /\ payload' = t.payload
        /\ IF t.tag = "payload"
           THEN /\ pc' = "post"
                /\ UNCHANGED <<outcomes, exc, runMsg>>
           ELSE IF t.tag = "missing_name"
           THEN Done("skipped_name")
           ELSE Done("skipped_ineligible")
    /\ UNCHANGED pages
    /\ UNCHANGED <<mode, url, projects, responseBound, pageNo, listFailed,
                   vercel_projects, idx, details, fetched, reqs>>

\* Mutant of CreatePost: a rejected request is issued again
CreatePost_Retry ==
    /\ pc = "post"
    /\ reqs' = Append(reqs, Request("create", CurId))
    /\ \E answer \in {"ok"} \cup FailureKinds :
        IF answer = "ok" THEN Done("created")
        ELSE IF answer = "http"
        THEN IF CreateRequests(CurId) = {}
             THEN UNCHANGED <<pc, outcomes, exc, runMsg>>
             ELSE Done("failed_creation")
        ELSE /\ Crash("UnboundLocalError")
             /\ UNCHANGED <<outcomes, runMsg>>
    /\ UNCHANGED pages
    /\ UNCHANGED <<mode, url, projects, responseBound, pageNo, listFailed,
                   vercel_projects, idx, details, fetched, payload>>

\* The API call.  The handler reads the local response, which is unbound
\* when requests.post raised.
CreatePost ==
    /\ pc = "post"
    /\ reqs' = Append(reqs, Request("create", CurId))
    /\ \E answer \in {"ok"} \cup FailureKinds :
        IF answer = "ok" THEN Done("created")
        ELSE IF answer = "http" THEN Done("failed_creation")
        ELSE /\ Crash("UnboundLocalError")
             /\ UNCHANGED <<outcomes, runMsg>>
    /\ UNCHANGED pages
    /\ UNCHANGED <<mode, url, projects, responseBound, pageNo, listFailed,
                   vercel_projects, idx, details, fetched, payload>>

----------------------------------------------------------------------------

Next ==
    \/ ListPageOk
    \/ ListPageFail
    \/ ListReturn
    \/ AfterList
    \/ LoopNext
    \/ FetchInfo
    \/ FetchEnv
    \/ FetchDomains
    \/ Check
    \/ CreateTransform
    \/ CreatePost

Spec == Init /\ [][Next]_vars

----------------------------------------------------------------------------
(* Properties of a run *)

RunEnded == pc \in {"finished", "returned", "crashed"}

\* The number of identifiers the run has to process
Identifiers == IF mode = "single" THEN 1 ELSE Len(vercel_projects.list)

\* get_vercel_project_details has returned a dictionary for the current
\* identifier and main has dealt with it
Handled == ~details.none /\ pc \notin {"env", "domains", "check", "create"}

IsGithub(info) == info.link.shape = "dict" /\ info.link.type = "github"

Last(s) == s[Len(s)]

\* C1: whatever happens to a single project, the run does not abort: once
\* the identifiers are known, the run ends only when every one of them has
\* been processed, and it ends without an uncaught exception.
C1_NeverAborts ==
    (RunEnded /\ (mode = "single" \/ ~ListFalsy(vercel_projects)))
        => (exc = "none" /\ Len(outcomes) = Identifiers)

\* C2: when a page request of the listing fails, on the first page or a
\* later one, by status or by transport, get_vercel_projects returns the
\* failure value None and nothing else happens.
C2_AllOrNothing ==
    listFailed => (exc = "none" /\ pc # "list" /\ vercel_projects.none)

\* C3: get_vercel_project_details returns None when the info request
\* failed; otherwise it returns a dictionary with the fetched info, with
\* env_vars the fetched array or [] when that request failed, and with
\* domains the fetched array or [] when that request failed; both keys are
\* always present.
C3_FetchDetail ==
    pc = "check" =>
        /\ fetched.info = "fail" => details.none
        /\ fetched.info = "ok" =>
            /\ ~details.none
            /\ details.has = {"info", "env_vars", "domains"}
            /\ details.info = fetched.infoBody
            /\ details.env_vars =
                   IF fetched.env = "ok" THEN fetched.envBody ELSE << >>
            /\ details.domains =
                   IF fetched.domains = "ok" THEN fetched.domainsBody
                   ELSE << >>

\* C3 witness: the info and the domains were fetched, the environment
\* variables were not, and the dictionary is returned with the domains.
C3_Witness ==
    /\ pc = "check"
    /\ fetched.info = "ok"
    /\ fetched.env = "fail"
    /\ fetched.domains = "ok"
    /\ details.env_vars = << >>
    /\ details.domains # << >>

\* C4: a project whose link type is not "github", whatever the shape of the
\* link, is skipped: in both modes main deals with it without an exception,
\* reports a skip and issues no creation request.
C4_IneligibleSkipped ==
    (Handled /\ ~IsGithub(details.info)) =>
        /\ exc = "none"
        /\ Len(outcomes) = idx
        /\ Last(outcomes) \in {"skipped_ineligible", "skipped_name"}
        /\ CreateRequests(CurId) = {}

C9_NoRetry ==
    \A i \in DOMAIN reqs :
        reqs[i].op = "create" =>
            Cardinality(CreateRequests(reqs[i].arg)) = 1

\* C9 witness: the creation of the first project was rejected, the run went
\* on, and it has ended.
C9_Witness ==
    /\ pc = "finished"
    /\ Len(outcomes) >= 2
    /\ outcomes[1] = "failed_creation"
    /\ Cardinality(CreateRequests(vercel_projects.list[1].id)) = 1

\* C10: a bulk run whose listing failed ends with a report that differs from
\* the report of a run whose listing succeeded with no project.
C10_FailedToEnumerate ==
    (pc = "returned" /\ listFailed) =>
        /\ outcomes = << >>
        /\ runMsg # AfterListMsg([none |-> FALSE, list |-> << >>])

----------------------------------------------------------------------------
(* The mapping on its own: create_cloudflare_pages_project is entered, in   *)
(* single-project mode, with a details dictionary drawn from bounded sets. *)

MapTargets ==
    {{}, {"development"}, {"production"}, {"preview"},
     {"production", "preview"}, Scopes}

\* The entries of the envs array: plain ones of every key, value and target,
\* and encrypted and secret ones, whose value may be missing
MapVars ==
    {EnvVar(k, v, t, "plain") :
        k \in {"", "A", "B"}, v \in {"", "x", "y"}, t \in MapTargets}
    \cup {EnvVar(k, v, {"production", "preview"}, ty) :
        k \in {"A", "B"}, v \in {Absent, "y"}, ty \in {"encrypted", "secret"}}

EnvSeqs == UNION {[1..n -> MapVars] : n \in 0..MaxEnvLen}

MapInfos ==
    {Info(n, l, b, "npm run build", "dist", r) :
        n \in Names, l \in Links, b \in {Absent, "", "dev"},
        r \in {Absent, "app"}}

GithubInfo ==
    Info("site", Link("dict", "github", "acme", "web"), Absent,
         "npm run build", "dist", Absent)

\* GitHub links with and without the keys org and repo, and with a key
\* owner beside them
MapLinks ==
    {WithOwner(Link("dict", "github", o, r), w) :
        o \in {Absent, "acme"}, r \in {Absent, "web"},
        w \in {Absent, "acme", "someone"}}

MapLinkInfos ==
    {Info("site", l, Absent, "npm run build", "dist", Absent) :
        l \in MapLinks}

MapInputs ==
    (MapInfos \X RunEnvs) \cup ({GithubInfo} \X EnvSeqs)
        \cup (MapLinkInfos \X {<< >>})

MapInit ==
    /\ mode = "single"
    /\ pc = "create"
    /\ url = BaseUrl
    /\ projects = << >>
    /\ responseBound = FALSE
    /\ pageNo = 0
    /\ listFailed = FALSE
    /\ pages = << >>
    /\ vercel_projects = [none |-> TRUE, list |-> << >>]
    /\ idx = 1
    /\ \E in \in MapInputs :
        /\ details = [none |-> FALSE, has |-> {"info", "env_vars", "domains"},
                      info |-> in[1], env_vars |-> in[2], domains |-> << >>]
        /\ fetched = [info |-> "ok", env |-> "ok", domains |-> "ok",
                      infoBody |-> in[1], envBody |-> in[2],
                      domainsBody |-> << >>]
    /\ payload = << >>
    /\ outcomes = << >>
    /\ reqs = <<Request("info", 1), Request("env", 1), Request("domains", 1)>>
    /\ exc = "none"
    /\ runMsg = "Fetching Vercel projects..."

MapNext == CreateTransform

SpecMap == MapInit /\ [][MapNext]_vars

----------------------------------------------------------------------------
(* Properties of the mapping *)

Envs == details.env_vars

MapOf(scope) ==
    IF scope = "production"
    THEN payload[1].deployment_configs.production.environment_variables
    ELSE payload[1].deployment_configs.preview.environment_variables

TargetScopes == {"production", "preview"}

HasEntry(m, k, v) == k \in DOMAIN m /\ m[k] = v

\* The variables that qualify for the map of a scope
Qualifying(scope) ==
    {i \in DOMAIN Envs :
        Truthy(Envs[i].key) /\ Truthy(Envs[i].value)
            /\ scope \in Envs[i].target}

\* A later variable with the same key qualifies for the map of the scope
Overwritten(i, scope) ==
    \E j \in Qualifying(scope) : j > i /\ Envs[j].key = Envs[i].key

\* C5 as stated: every variable scoped to both production and preview, with
\* key K and value V, has K mapped to V in both maps.
C5_FanOut ==
    pc = "post" =>
        \A i \in DOMAIN Envs :
            TargetScopes \subseteq Envs[i].target =>
                \A sc \in TargetScopes :
                    HasEntry(MapOf(sc), Envs[i].key, Envs[i].value)

\* C5 amended: every variable with a non-empty key K and a non-empty value
\* V that is scoped to both production and preview has K in both maps, and
\* each map gives K the value V unless a later variable with key K, a
\* non-empty value and that map's scope follows it in the sequence.
C5_FanOutAmended ==
    pc = "post" =>
        \A i \in DOMAIN Envs :
            (TargetScopes \subseteq Envs[i].target
                /\ Truthy(Envs[i].key) /\ Truthy(Envs[i].value)) =>
                \A sc \in TargetScopes :
                    /\ Envs[i].key \in DOMAIN MapOf(sc)
                    /\ ~Overwritten(i, sc) =>
                           MapOf(sc)[Envs[i].key] = Envs[i].value

\* C5 witness: a variable scoped to both is in both maps, after another
\* variable of the same key went to the production map only.
C5_Witness ==
    /\ pc = "post"
    /\ Len(Envs) = 2
    /\ Envs[1].key = Envs[2].key
    /\ Envs[1].value # Envs[2].value
    /\ Truthy(Envs[1].value)
    /\ Envs[1].target = {"production"}
    /\ TargetScopes \subseteq Envs[2].target
    /\ \A sc \in TargetScopes :
           HasEntry(MapOf(sc), Envs[2].key, Envs[2].value)

\* C6 as stated: the key of a variable with an empty value is in neither
\* map.
C6_Drop ==
    pc = "post" =>
        \A i \in DOMAIN Envs :
            ~Truthy(Envs[i].value) =>
                \A sc \in TargetScopes : Envs[i].key \notin DOMAIN MapOf(sc)

\* C6 amended: the key of a variable with an empty value is in a map only
\* when another variable of the sequence has that key, a non-empty value
\* and that map's scope.
C6_DropAmended ==
    pc = "post" =>
        \A i \in DOMAIN Envs :
            ~Truthy(Envs[i].value) =>
                \A sc \in TargetScopes :
                    Envs[i].key \in DOMAIN MapOf(sc) =>
                        \E j \in Qualifying(sc) : Envs[j].key = Envs[i].key

\* C6 witness: a variable with an empty value, scoped to production, left
\* no entry, while another variable did.
C6_Witness ==
    /\ pc = "post"
    /\ \E i \in DOMAIN Envs :
        /\ Envs[i].value = ""
        /\ Truthy(Envs[i].key)
        /\ "production" \in Envs[i].target
        /\ \A sc \in TargetScopes : Envs[i].key \notin DOMAIN MapOf(sc)
    /\ DOMAIN MapOf("production") # {}

----------------------------------------------------------------------------
(* What main hands over when it ends *)

\* main returns nothing and keeps no counter: the values returned by
\* create_cloudflare_pages_project are dropped, and the last thing printed
\* is the closing line.
FinalOutput == [message |-> runMsg]

\* The number of processed identifiers that ended in one of the outcomes os
Count(os) == Cardinality({i \in DOMAIN outcomes : outcomes[i] \in os})

\* The summary of section 4.6 for the identifiers processed so far
SummaryCounts ==
    [created |-> Count({"created"}),
     skipped_ineligible |-> Count({"skipped_ineligible"}),
     skipped_error |-> Count({"skipped_error", "skipped_name", "skipped_noid"}),
     failed_creation |-> Count({"failed_creation"})]

\* C11: when the run ends, main yields a summary with the four counts, in
\* which every processed identifier is counted once, under its outcome.
C11_Summary ==
    pc = "finished" =>
        /\ "counts" \in DOMAIN FinalOutput
        /\ FinalOutput.counts = SummaryCounts

----------------------------------------------------------------------------
(* Properties of the payload *)

\* C12: the production branch of the payload and the one of its source
\* configuration are equal; they are the productionBranch of the info when
\* that is present and non-empty, and "main" otherwise.
C12_ProductionBranch ==
    pc = "post" =>
        /\ payload[1].production_branch =
               payload[1].source.config.production_branch
        /\ Truthy(details.info.productionBranch) =>
               payload[1].production_branch = details.info.productionBranch
        /\ ~Truthy(details.info.productionBranch) =>
               payload[1].production_branch = "main"

\* C12 witness: the info has no productionBranch and both branches of the
\* payload are "main".
C12_Witness ==
    /\ pc = "post"
    /\ details.info.productionBranch = Absent
    /\ payload[1].production_branch = "main"
    /\ payload[1].source.config.production_branch = "main"

----------------------------------------------------------------------------
(* Properties of the listing *)

IsList(r) == r.op = "list"

\* The listing requests issued so far, in order
ListReqs == SelectSeq(reqs, IsList)

RECURSIVE Concat(_)
Concat(ps) == IF ps = << >> THEN << >> ELSE Head(ps).page \o Concat(Tail(ps))

\* C14: the first listing request carries no cursor and every later one the
\* cursor of the answer before it; no request follows a page without a
\* cursor; and when every request succeeded the listing returns the pages
\* in the order received, up to and including the first page without a
\* cursor.
C14_Lister ==
    /\ \A k \in DOMAIN ListReqs :
           /\ k <= Len(pages) + 1
           /\ ListReqs[k].arg =
                  IF k = 1 THEN BaseUrl ELSE UntilUrl(pages[k - 1].next)
    /\ \A k \in DOMAIN pages : k < Len(ListReqs) => pages[k].next # 0
    /\ (mode = "bulk" /\ pc # "list" /\ ~listFailed) =>
           /\ ~vercel_projects.none
           /\ vercel_projects.list = Concat(pages)
           /\ pages # << >>
           /\ \A k \in DOMAIN pages : (pages[k].next = 0) <=> (k = Len(pages))
           /\ Len(ListReqs) = Len(pages)

\* C14 witness: two pages, each with a summary, have been returned as one
\* list.
C14_Witness ==
    /\ pc = "after_list"
    /\ Len(pages) = 2
    /\ pages[1].page # << >>
    /\ pages[2].page # << >>
    /\ vercel_projects.list = pages[1].page \o pages[2].page
    /\ ListReqs = <<Request("list", BaseUrl),
                    Request("list", UntilUrl(pages[1].next))>>

----------------------------------------------------------------------------
(* Properties of a project whose secondary requests fail *)

\* main is through with the current identifier, or the run has ended on it
Through == pc \notin {"info", "env", "domains", "check", "create", "post"}

\* C15: a project whose info was fetched, with a name and a GitHub link,
\* gets exactly one creation request whatever the requests for the
\* environment variables and the domains answered; the payload has the
\* name, the build settings and the repository of the fetched info, and
\* its two environment maps are empty when the request for the environment
\* variables failed.
C15_SecondaryFailure ==
    (fetched.info = "ok" /\ Truthy(fetched.infoBody.name)
        /\ IsGithub(fetched.infoBody)) =>
        /\ Through =>
               (Cardinality(CreateRequests(CurId)) = 1 /\ Len(payload) = 1)
        /\ Len(payload) = 1 =>
            /\ payload[1].name = fetched.infoBody.name
            /\ payload[1].build_config.build_command =
                   fetched.infoBody.buildCommand
            /\ payload[1].build_config.output_dir =
                   fetched.infoBody.outputDirectory
            /\ payload[1].build_config.root_dir =
                   IF Truthy(fetched.infoBody.rootDirectory)
                   THEN fetched.infoBody.rootDirectory ELSE "/"
            /\ payload[1].source.config.owner = fetched.infoBody.link.org
            /\ payload[1].source.config.repo_name =
                   fetched.infoBody.link.repo
            /\ fetched.env = "fail" =>
                   \A sc \in TargetScopes : MapOf(sc) = << >>

\* C15 witness: both secondary requests failed and the project was created
\* with empty environment maps.
C15_Witness ==
    /\ Through
    /\ fetched.info = "ok"
    /\ fetched.env = "fail"
    /\ fetched.domains = "fail"
    /\ outcomes # << >>
    /\ Last(outcomes) = "created"
    /\ Cardinality(CreateRequests(CurId)) = 1
    /\ \A sc \in TargetScopes : MapOf(sc) = << >>

----------------------------------------------------------------------------
(* Properties of the order of the requests *)

InfoRequested(id) == \E i \in DOMAIN reqs : reqs[i] = Request("info", id)

\* C16: the listing requests come first and the listing has returned before
\* any other request; the identifiers are taken in the order of the
\* listing, none left out; the requests of one identifier are its info,
\* its environment variables, its domains and its creation, in this order
\* and with no request of another identifier in between.  A request and
\* its answer are one step: the calls block.
C16_Sequential ==
    /\ \A i \in DOMAIN reqs :
        LET r == reqs[i] IN
        IF r.op = "list"
        THEN i = 1 \/ reqs[i - 1].op = "list"
        ELSE /\ mode = "bulk" =>
                    /\ pc \notin {"list", "after_list"}
                    /\ ~vercel_projects.none
                    /\ r.arg \in DOMAIN vercel_projects.list
                    /\ vercel_projects.list[r.arg].id = r.arg
                    /\ r.arg <= idx
             /\ r.op = "info" =>
                    \/ i = 1
                    \/ reqs[i - 1].op = "list"
                    \/ /\ reqs[i - 1].op \in {"info", "domains", "create"}
                       /\ reqs[i - 1].arg < r.arg
             /\ r.op = "env" => (i > 1 /\ reqs[i - 1] = Request("info", r.arg))
             /\ r.op = "domains" =>
                    (i > 1 /\ reqs[i - 1] = Request("env", r.arg))
             /\ r.op = "create" =>
                    (i > 1 /\ reqs[i - 1] = Request("domains", r.arg))
    /\ mode = "bulk" =>
        \A j \in 1..idx :
            (vercel_projects.list[j].id # 0 /\ ~(j = idx /\ pc = "info"))
                => InfoRequested(vercel_projects.list[j].id)

\* C16 witness: a bulk run has ended in which the creation request of the
\* first listed project is followed by the info request of the second.
C16_Witness ==
    /\ mode = "bulk"
    /\ pc = "finished"
    /\ \E i \in DOMAIN reqs :
        /\ i > 4
        /\ i < Len(reqs)
        /\ reqs[i - 3] = Request("info", 1)
        /\ reqs[i - 2] = Request("env", 1)
        /\ reqs[i - 1] = Request("domains", 1)
        /\ reqs[i] = Request("create", 1)
        /\ reqs[i + 1] = Request("info", 2)

----------------------------------------------------------------------------
(* Termination *)

\* Every call returns and the process is never suspended for good: main
\* always takes its next step.
FairSpec == Spec /\ WF_vars(Next)

\* Every page received so far carried a cursor, and no request failed
EveryPageHasCursor ==
    /\ mode = "bulk"
    /\ ~listFailed
    /\ \A k \in DOMAIN pages : pages[k].next # 0

\* C17: a run whose cursor chain is finite ends; and as long as every page
\* carries a cursor the while loop has not ended, whatever the number of
\* pages: its next request is due and nothing has been done for any
\* project.
C17_Termination ==
    /\ <>RunEnded
    /\ [](EveryPageHasCursor =>
             /\ pc = "list"
             /\ url # NoUrl
             /\ vercel_projects.none
             /\ outcomes = << >>
             /\ \A i \in DOMAIN reqs : reqs[i].op = "list")

\* C17 witness: a bulk run has ended after a listing of two pages.
C17_Witness ==
    /\ mode = "bulk"
    /\ pc = "finished"
    /\ Len(pages) = 2
    /\ pages[1].next # 0

----------------------------------------------------------------------------
(* The two modes *)

\* The outcomes of section 4.6
Category(o) ==
    IF o \in {"skipped_error", "skipped_name", "skipped_noid"}
    THEN "skipped on error"
    ELSE IF o = "skipped_ineligible" THEN "skipped as ineligible"
    ELSE o

\* get_vercel_project_details has returned for the current identifier and
\* main has decided what to do with it
Decided ==
    fetched.info # "none"
        /\ pc \notin {"info", "env", "domains", "check", "create"}

\* What the run did with the current identifier, up to the API call
Decision ==
    IF Len(payload) = 1 THEN "request"
    ELSE IF pc = "crashed" THEN exc
    ELSE Category(Last(outcomes))

\* The actions decide as the operators of the two modes say.
DecisionsAreTheModes ==
    Decided =>
        Decision = Category(IF mode = "single" THEN SingleDecision(details)
                            ELSE BulkDecision(details))

\* C18: for every project and every combination of answers, the mode of
\* the run and the other mode come to the same outcome and issue the same
\* requests: the three detail requests are the same in both, and the
\* creation request, with the same payload and hence the same answer, is
\* issued in one exactly when it is issued in the other.
C18_ModesAgree ==
    Decided =>
        Decision = Category(IF mode = "single" THEN BulkDecision(details)
                            ELSE SingleDecision(details))

====
